---- MODULE Spec2Model ----
(***************************************************************************)
(* macfmt: locating MAC addresses in free text (find_mac_addresses),       *)
(* parsing one candidate (MacAddress::new), rendering it in four notations *)
(* (to_standard, to_cisco, to_windows, to_bare over format_hex_chars) and  *)
(* the batch driver (process_input).                                       *)
(*                                                                         *)
(* Text is modelled as Rust holds it: a sequence of UTF-8 bytes.  A        *)
(* character outside ASCII is two or three consecutive bytes, String::len  *)
(* counts bytes, and as_bytes().chunks(2) cuts between bytes.              *)
(***************************************************************************)
EXTENDS Integers, Sequences, FiniteSets, TLC

VARIABLES
    input,        \* the text handed to process_input / MacAddress::new
    origin,       \* where the text comes from: "text" read by main, a "candidate"
                  \* handed to MacAddress::new, or a "rendered" address
    npieces,      \* how many pieces the text was assembled from
    rendered,     \* the MacAddress a bare rendering was produced from, or NoMac
    pc,           \* position of the caller
    parsed,       \* result of a direct MacAddress::new(input) call
    formatted,    \* result of a direct to_xxx(force_case) call on parsed
    format_fn,    \* process_input's format_fn argument
    force_case,   \* process_input's force_case argument
    pattern_i,    \* find_mac_addresses: index of the next pattern to apply
    addresses,    \* find_mac_addresses: the Vec<String> being built
    spans,        \* for each entry of addresses: the pattern family and Match::start
    mac_i,        \* process_input: index of the next entry of mac_strings
    stdout,       \* lines printed by println!
    stderr,       \* lines printed by eprintln!
    result        \* process_input's return value

vars == <<input, origin, npieces, rendered, pc, parsed, formatted, format_fn, force_case,
          pattern_i, addresses, spans, mac_i, stdout, stderr, result>>

-----------------------------------------------------------------------------
(* Bounds of the model.                                                    *)

\* the text is the concatenation of at most MaxPieces pieces
MaxPieces == 2

\* a rendered address has the octets b, b+s, b+2s, ... (mod 256), with b and
\* s among NumByteSamples values
NumByteSamples == 3

-----------------------------------------------------------------------------
(* Characters.                                                             *)

\* the byte of each ASCII character the pieces are written with
Ord ==
    [c \in {"0","1","2","3","4","5","6","a","b","c","d","e","f",
            "A","B","C","D","E","F","z",":","-","."," ","+","\t"} |->
        CASE c = "0" -> 48  [] c = "1" -> 49  [] c = "2" -> 50  [] c = "3" -> 51
          [] c = "4" -> 52  [] c = "5" -> 53  [] c = "6" -> 54
          [] c = "a" -> 97  [] c = "b" -> 98  [] c = "c" -> 99  [] c = "d" -> 100
          [] c = "e" -> 101 [] c = "f" -> 102
          [] c = "A" -> 65  [] c = "B" -> 66  [] c = "C" -> 67  [] c = "D" -> 68
          [] c = "E" -> 69  [] c = "F" -> 70
          [] c = "z" -> 122 [] c = ":" -> 58  [] c = "-" -> 45  [] c = "." -> 46
          [] c = " " -> 32  [] c = "+" -> 43  [] c = "\t" -> 9]

\* a text literal as its bytes
Bytes(s) == [i \in 1..Len(s) |-> Ord[s[i]]]

\* u8::is_ascii_uppercase
is_ascii_uppercase(b) == b \in 65..90

\* char::to_ascii_uppercase
to_ascii_uppercase(b) == IF b \in 97..122 THEN b - 32 ELSE b

\* the regex class [0-9a-fA-F]
IsHexDigit(b) == b \in (48..57) \cup (97..102) \cup (65..70)

\* char::to_digit(16) of a byte for which IsHexDigit holds
to_digit(b) ==
    IF b \in 48..57 THEN b - 48
    ELSE IF b \in 97..102 THEN b - 87
    ELSE b - 55

\* std::str::from_utf8 on one chunk of at most two bytes: ASCII bytes, or one
\* two-byte character (lead 0xC2..0xDF, continuation 0x80..0xBF)
from_utf8_ok(chunk) ==
    \/ \A k \in 1..Len(chunk) : chunk[k] < 128
    \/ /\ Len(chunk) = 2
       /\ chunk[1] \in 194..223
       /\ chunk[2] \in 128..191

\* u8::from_str_radix(hex_str, 16): an optional leading '+' that is not the
\* whole string, then at least one hex digit and only hex digits; the value
\* must fit in u8.  The result is -1 for Err.
from_str_radix(hex_str) ==
    LET signed == Len(hex_str) > 1 /\ hex_str[1] = 43
        digits == IF signed THEN SubSeq(hex_str, 2, Len(hex_str)) ELSE hex_str
        value  == IF Len(digits) = 1 THEN to_digit(digits[1])
                  ELSE to_digit(digits[1]) * 16 + to_digit(digits[2])
    IN  IF Len(hex_str) = 0 THEN -1
        ELSE IF Len(hex_str) = 1 /\ hex_str[1] \in {43, 45} THEN -1
        ELSE IF \E k \in 1..Len(digits) : ~IsHexDigit(digits[k]) THEN -1
        ELSE IF value > 255 THEN -1
        ELSE value

-----------------------------------------------------------------------------
(* MacAddress::new                                                         *)

\* '-' missing from the characters removed
Separators_no_dash == {58, 46, 32}

\* the characters input.replace(['-', ':', '.', ' '], "") removes
Separators == {45, 58, 46, 32}

\* let cleaned = input.replace(['-', ':', '.', ' '], "")
IsKept(b) == b \notin Separators
cleaned(in) == SelectSeq(in, IsKept)

Err(kind, in) == [ok |-> FALSE, kind |-> kind, input |-> in]
Ok(bytes, original_case) ==
    [ok |-> TRUE, bytes |-> bytes, original_case |-> original_case]

\* cleaned.as_bytes().chunks(2): the i-th chunk, i counted from 0
chunk_at(cl, i) ==
    SubSeq(cl, 2 * i + 1, IF 2 * i + 2 <= Len(cl) THEN 2 * i + 2 ELSE Len(cl))

\* the for loop over the chunks, from chunk i on
RECURSIVE new_chunks(_, _, _, _, _)
new_chunks(in, cl, i, bytes, original_case) ==
    IF 2 * i >= Len(cl) THEN Ok(bytes, original_case)
    ELSE IF i >= 6 THEN Err("Invalid", in)
    ELSE LET chunk == chunk_at(cl, i)
             cased == original_case \o
                        [k \in 1..Len(chunk) |-> is_ascii_uppercase(chunk[k])]
             v     == from_str_radix(chunk)
         IN  IF ~from_utf8_ok(chunk) THEN Err("InvalidCharacters", in)
             ELSE IF v = -1 THEN Err("InvalidHex", in)
             ELSE new_chunks(in, cl, i + 1, [bytes EXCEPT ![i + 1] = v], cased)

\* the length check written as an upper limit only
MacAddress_new_len_gt(in) ==
    LET cl == cleaned(in)
    IN  IF Len(cl) > 12 THEN Err("InvalidLength", in)
        ELSE new_chunks(in, cl, 0, [k \in 1..6 |-> 0], <<>>)

MacAddress_new(in) ==
    LET cl == cleaned(in)
    IN  IF Len(cl) # 12 THEN Err("InvalidLength", in)
        ELSE new_chunks(in, cl, 0, [k \in 1..6 |-> 0], <<>>)

-----------------------------------------------------------------------------
(* Formatting                                                              *)

ForceCases == {"Some(true)", "Some(false)", "None"}

\* format!("{byte:02x}"): the j-th (0 or 1) lowercase hex digit of byte
hex_digit(n) == IF n < 10 THEN 48 + n ELSE 87 + n
hex_02x(byte, j) ==
    IF j = 0 THEN hex_digit(byte \div 16) ELSE hex_digit(byte % 16)

\* the case record indexed by octet instead of by digit
should_be_upper_by_octet(mac, fc, char_index) ==
    CASE fc = "Some(true)"  -> TRUE
      [] fc = "Some(false)" -> FALSE
      [] OTHER -> /\ char_index \div 2 < Len(mac.original_case)
                  /\ mac.original_case[char_index \div 2 + 1]

\* the match on force_case
should_be_upper(mac, fc, char_index) ==
    CASE fc = "Some(true)"  -> TRUE
      [] fc = "Some(false)" -> FALSE
      [] OTHER -> /\ char_index < Len(mac.original_case)
                  /\ mac.original_case[char_index + 1]

\* the octets rendered with {byte:02X}
format_hex_chars_02X(mac, fc) ==
    [n \in 1..12 |->
        LET char_index == n - 1
            i  == char_index \div 2
            j  == char_index % 2
            ch == to_ascii_uppercase(hex_02x(mac.bytes[i + 1], j))
        IN  IF should_be_upper(mac, fc, char_index)
            THEN to_ascii_uppercase(ch) ELSE ch]

format_hex_chars(mac, fc) ==
    [n \in 1..12 |->
        LET char_index == n - 1
            i  == char_index \div 2
            j  == char_index % 2
            ch == hex_02x(mac.bytes[i + 1], j)
        IN  IF should_be_upper(mac, fc, char_index)
            THEN to_ascii_uppercase(ch) ELSE ch]

\* chars[7] written twice
to_cisco_index_slip(mac, fc) ==
    LET chars == format_hex_chars(mac, fc)
    IN  <<chars[1], chars[2], chars[3], chars[4], 46,
          chars[5], chars[6], chars[8], chars[8], 46,
          chars[9], chars[10], chars[11], chars[12]>>

to_cisco(mac, fc) ==
    LET chars == format_hex_chars(mac, fc)
    IN  <<chars[1], chars[2], chars[3], chars[4], 46,
          chars[5], chars[6], chars[7], chars[8], 46,
          chars[9], chars[10], chars[11], chars[12]>>

to_standard(mac, fc) ==
    LET chars == format_hex_chars(mac, fc)
    IN  <<chars[1], chars[2], 58, chars[3], chars[4], 58,
          chars[5], chars[6], 58, chars[7], chars[8], 58,
          chars[9], chars[10], 58, chars[11], chars[12]>>

to_windows(mac, fc) ==
    LET chars == format_hex_chars(mac, fc)
    IN  <<chars[1], chars[2], 45, chars[3], chars[4], 45,
          chars[5], chars[6], 45, chars[7], chars[8], 45,
          chars[9], chars[10], 45, chars[11], chars[12]>>

to_bare(mac, fc) ==
    LET chars == format_hex_chars(mac, fc)
    IN  chars

\* the fn pointer main selects from cli.command
FormatFns == {"to_cisco", "to_standard", "to_windows", "to_bare"}

call_format_fn(fn, mac, fc) ==
    CASE fn = "to_cisco"    -> to_cisco(mac, fc)
      [] fn = "to_standard" -> to_standard(mac, fc)
      [] fn = "to_windows"  -> to_windows(mac, fc)
      [] OTHER              -> to_bare(mac, fc)

-----------------------------------------------------------------------------
(* find_mac_addresses                                                      *)

\* the bare pattern listed first
patterns_bare_first ==
    << [family |-> "bare",      groups |-> 0, width |-> 12, delims |-> {}],
       [family |-> "delimited", groups |-> 5, width |-> 2,  delims |-> {58, 45}],
       [family |-> "dotted",    groups |-> 2, width |-> 4,  delims |-> {46}] >>

\* the three regular expressions, each a run of `groups` groups of `width`
\* hex digits followed by one character of `delims`, then `width` hex digits:
\*   ([0-9a-fA-F]{2}[:-]){5}[0-9a-fA-F]{2}
\*   ([0-9a-fA-F]{4}\.){2}[0-9a-fA-F]{4}
\*   [0-9a-fA-F]{12}
patterns ==
    << [family |-> "delimited", groups |-> 5, width |-> 2,  delims |-> {58, 45}],
       [family |-> "dotted",    groups |-> 2, width |-> 4,  delims |-> {46}],
       [family |-> "bare",      groups |-> 0, width |-> 12, delims |-> {}] >>

\* every match of a pattern has this many bytes
match_len(p) == p.groups * (p.width + 1) + p.width

\* the pattern matches the text at the 1-based position s
is_match_at(p, text, s) ==
    /\ s + match_len(p) - 1 <= Len(text)
    /\ \A k \in 0..(match_len(p) - 1) :
          LET b == text[s + k]
          IN  IF k < p.groups * (p.width + 1) /\ k % (p.width + 1) = p.width
              THEN b \in p.delims
              ELSE IsHexDigit(b)

\* re.find_iter(text): the leftmost match at or after `from`, then the
\* matches after its end; each as its Match::start (1-based) and its text
RECURSIVE find_iter(_, _, _)
find_iter(p, text, from) ==
    LET starts == {s \in from..Len(text) : is_match_at(p, text, s)}
    IN  IF starts = {} THEN <<>>
        ELSE LET s == CHOOSE x \in starts : \A y \in starts : x <= y
             IN  <<[start |-> s, as_str |-> SubSeq(text, s, s + match_len(p) - 1)]>>
                   \o find_iter(p, text, s + match_len(p))

-----------------------------------------------------------------------------
(* Inputs                                                                  *)

NoMac == [ok |-> FALSE, kind |-> "None", input |-> <<>>]

\* the pieces the text main reads is assembled from
TextPieces ==
    { Bytes(<<"a","a",":","b","b",":","c","c",":","d","d",":","e","e",":","f","f">>),
      Bytes(<<"A","A","-","b","b","-","C","C","-","d","d","-","E","E","-","f","f">>),
      Bytes(<<"a","a",":","b","b","-","c","c",":","d","d","-","e","e",":","f","f">>),
      Bytes(<<"1","1","2","2",".","3","3","4","4",".","5","5","6","6">>),
      Bytes(<<"A","A","b","b","C","C","d","d","E","E","f","f">>),
      Bytes(<<"a","a",":","b","b",":","c","c",":","d","d",":","e","e">>),
      Bytes(<<" ">>) }

\* the pieces a candidate handed to MacAddress::new is assembled from
CandidatePieces ==
    TextPieces \cup
    { Bytes(<<":","+","a">>),
      Bytes(<<":","z","z">>),
      Bytes(<<"\t","\t","\t","\t","\t","\t">>),
      <<195, 169>>,                          \* U+00E9, two bytes
      <<226, 128, 131, 226, 128, 131>> }     \* U+2003 EM SPACE twice, three bytes each

\* octet values and case records of the addresses rendered as input
ByteSamples == {(k * 171) % 256 : k \in 0..(NumByteSamples - 1)}

ValueSamples ==
    {[n \in 1..6 |-> (b + (n - 1) * s) % 256] : b \in ByteSamples, s \in ByteSamples}

CaseSamples ==
    {[n \in 1..12 |-> FALSE], [n \in 1..12 |-> TRUE],
     [n \in 1..12 |-> ((n - 1) \div 2) % 2 = 0]}
      \cup {[n \in 1..12 |-> n = k] : k \in 1..12}

-----------------------------------------------------------------------------
(* The program                                                             *)

Init ==
    /\ input = <<>>
    /\ origin = "none"
    /\ npieces = 0
    /\ rendered = NoMac
    /\ pc = "input"
    /\ parsed = NoMac
    /\ formatted = <<>>
    /\ format_fn = "none"
    /\ force_case = "none"
    /\ pattern_i = 0
    /\ addresses = <<>>
    /\ spans = <<>>
    /\ mac_i = 0
    /\ stdout = <<>>
    /\ stderr = <<>>
    /\ result = "none"

\* main reads one more piece of the text
ReadText ==
    /\ pc = "input"
    /\ origin \in {"none", "text"}
    /\ npieces < MaxPieces
    /\ \E p \in TextPieces : input' = input \o p
    /\ origin' = "text"
    /\ npieces' = npieces + 1
    /\ UNCHANGED <<rendered, pc, parsed, formatted, format_fn, force_case,
                   pattern_i, addresses, spans, mac_i, stdout, stderr, result>>

\* a caller of MacAddress::new assembles one more piece of its candidate
Candidate ==
    /\ pc = "input"
    /\ origin \in {"none", "candidate"}
    /\ npieces < MaxPieces
    /\ \E p \in CandidatePieces : input' = input \o p
    /\ origin' = "candidate"
    /\ npieces' = npieces + 1
    /\ UNCHANGED <<rendered, pc, parsed, formatted, format_fn, force_case,
                   pattern_i, addresses, spans, mac_i, stdout, stderr, result>>

\* the text is the bare rendering of an address: mac.to_bare(None)
RenderBare ==
    /\ pc = "input"
    /\ origin = "none"
    /\ \E bytes \in ValueSamples, original_case \in CaseSamples :
          /\ rendered' = Ok(bytes, original_case)
          /\ input' = to_bare(Ok(bytes, original_case), "None")
    /\ origin' = "rendered"
    /\ UNCHANGED <<npieces, pc, parsed, formatted, format_fn, force_case,
                   pattern_i, addresses, spans, mac_i, stdout, stderr, result>>

\* let mac = MacAddress::new(input)
New ==
    /\ pc = "input"
    /\ parsed' = MacAddress_new(input)
    /\ pc' = "parsed"
    /\ UNCHANGED <<input, origin, npieces, rendered, formatted, format_fn, force_case,
                   pattern_i, addresses, spans, mac_i, stdout, stderr, result>>

\* mac.to_xxx(force_case) on the address parsed
Format ==
    /\ pc = "parsed"
    /\ parsed.ok
    /\ \E fn \in FormatFns, fc \in ForceCases :
          /\ formatted' = call_format_fn(fn, parsed, fc)
          /\ format_fn' = fn
          /\ force_case' = fc
    /\ pc' = "formatted"
    /\ UNCHANGED <<input, origin, npieces, rendered, parsed,
                   pattern_i, addresses, spans, mac_i, stdout, stderr, result>>

\* main: choose force_case and format_fn, call process_input, which calls
\* find_mac_addresses
Main ==
    /\ pc = "input"
    /\ origin \in {"none", "text"}
    /\ \E fn \in FormatFns, fc \in ForceCases :
          /\ format_fn' = fn
          /\ force_case' = fc
    /\ pattern_i' = 0
    /\ addresses' = <<>>
    /\ spans' = <<>>
    /\ pc' = "scan"
    /\ UNCHANGED <<input, origin, npieces, rendered, parsed, formatted,
                   mac_i, stdout, stderr, result>>

\* find_mac_addresses: one iteration of the loop over the patterns
ScanPattern ==
    /\ pc = "scan"
    /\ pattern_i < Len(patterns)
    /\ LET p       == patterns[pattern_i + 1]
           matches == find_iter(p, input, 1)
       IN  /\ addresses' = addresses \o [k \in 1..Len(matches) |-> matches[k].as_str]
           /\ spans' = spans \o [k \in 1..Len(matches) |->
                                    [family |-> p.family, start |-> matches[k].start]]
    /\ pattern_i' = pattern_i + 1
    /\ UNCHANGED <<input, origin, npieces, rendered, pc, parsed, formatted, format_fn,
                   force_case, mac_i, stdout, stderr, result>>

\* find_mac_addresses returns; process_input holds mac_strings
ScanReturn ==
    /\ pc = "scan"
    /\ pattern_i = Len(patterns)
    /\ pc' = "run"
    /\ mac_i' = 1
    /\ UNCHANGED <<input, origin, npieces, rendered, parsed, formatted, format_fn,
                   force_case, pattern_i, addresses, spans, stdout, stderr, result>>

\* the emptiness check left out
ReturnNoAddresses_unchecked ==
    /\ pc = "run"
    /\ addresses = <<>>
    /\ result' = "Ok"
    /\ pc' = "done"
    /\ UNCHANGED <<input, origin, npieces, rendered, parsed, formatted, format_fn,
                   force_case, pattern_i, addresses, spans, mac_i, stdout, stderr>>

\* if mac_strings.is_empty() { return Err(...) }
ReturnNoAddresses ==
    /\ pc = "run"
    /\ addresses = <<>>
    /\ result' = "Err(No MAC addresses found in input)"
    /\ pc' = "done"
    /\ UNCHANGED <<input, origin, npieces, rendered, parsed, formatted, format_fn,
                   force_case, pattern_i, addresses, spans, mac_i, stdout, stderr>>

\* one iteration of for mac_str in mac_strings
ProcessMac ==
    /\ pc = "run"
    /\ mac_i <= Len(addresses)
    /\ LET mac_str == addresses[mac_i]
           mac     == MacAddress_new(mac_str)
       IN  IF mac.ok
           THEN /\ stdout' = Append(stdout, call_format_fn(format_fn, mac, force_case))
                /\ stderr' = stderr
           ELSE /\ stderr' = Append(stderr, [mac_str |-> mac_str, e |-> mac])
                /\ stdout' = stdout
    /\ mac_i' = mac_i + 1
    /\ UNCHANGED <<input, origin, npieces, rendered, pc, parsed, formatted, format_fn,
                   force_case, pattern_i, addresses, spans, result>>

\* Ok(()) returned from inside the loop body
ReturnOk_in_loop ==
    /\ pc = "run"
    /\ addresses # <<>>
    /\ mac_i > 1
    /\ result' = "Ok"
    /\ pc' = "done"
    /\ UNCHANGED <<input, origin, npieces, rendered, parsed, formatted, format_fn,
                   force_case, pattern_i, addresses, spans, mac_i, stdout, stderr>>

\* Ok(()) after the loop
ReturnOk ==
    /\ pc = "run"
    /\ addresses # <<>>
    /\ mac_i > Len(addresses)
    /\ result' = "Ok"
    /\ pc' = "done"
    /\ UNCHANGED <<input, origin, npieces, rendered, parsed, formatted, format_fn,
                   force_case, pattern_i, addresses, spans, mac_i, stdout, stderr>>

Next ==
    \/ ReadText
    \/ Candidate
    \/ RenderBare
    \/ New
    \/ Format
    \/ Main
    \/ ScanPattern
    \/ ScanReturn
    \/ ReturnNoAddresses
    \/ ProcessMac
    \/ ReturnOk

Spec == Init /\ [][Next]_vars

-----------------------------------------------------------------------------
(* Vocabulary of the properties, stated without the operators above.       *)

Families == {"delimited", "dotted", "bare"}

FamilyRank(f) == CASE f = "delimited" -> 1 [] f = "dotted" -> 2 [] OTHER -> 3

HexLetterLower == 97..102
HexLetterUpper == 65..70
HexChars == (48..57) \cup HexLetterLower \cup HexLetterUpper

\* s has the layout of the family f
HasShape(f, s) ==
    CASE f = "delimited" ->
            /\ Len(s) = 17
            /\ \A k \in 1..17 : IF k % 3 = 0 THEN s[k] \in {58, 45} ELSE s[k] \in HexChars
      [] f = "dotted" ->
            /\ Len(s) = 14
            /\ \A k \in 1..14 : IF k % 5 = 0 THEN s[k] = 46 ELSE s[k] \in HexChars
      [] OTHER ->
            /\ Len(s) = 12
            /\ \A k \in 1..12 : s[k] \in HexChars

ShapeLen(f) == CASE f = "delimited" -> 17 [] f = "dotted" -> 14 [] OTHER -> 12

\* the text has the layout of family f at position s
OccursAt(f, text, s) ==
    /\ s + ShapeLen(f) - 1 <= Len(text)
    /\ HasShape(f, SubSeq(text, s, s + ShapeLen(f) - 1))

Scanned == pc \in {"run", "done"}

\* C1: find_mac_addresses returns the delimited-pair matches, then the
\* dot-grouped ones, then the bare ones: entry i precedes entry j only if its
\* family is earlier, or the family is the same and it starts earlier in the
\* text; each entry is the text of its family's layout at its start, and once
\* the scan is over every occurrence of a layout is returned or overlaps a
\* returned match of its family.
C1_FamilyMajorOrder ==
    /\ Len(spans) = Len(addresses)
    /\ \A i \in DOMAIN spans :
          /\ HasShape(spans[i].family, addresses[i])
          /\ addresses[i] = SubSeq(input, spans[i].start,
                                   spans[i].start + Len(addresses[i]) - 1)
    /\ \A i, j \in DOMAIN spans :
          i < j => \/ FamilyRank(spans[i].family) < FamilyRank(spans[j].family)
                   \/ /\ spans[i].family = spans[j].family
                      /\ spans[i].start < spans[j].start
    /\ Scanned =>
          \A f \in Families : \A s \in 1..Len(input) :
              OccursAt(f, input, s) =>
                 \E i \in DOMAIN spans :
                    /\ spans[i].family = f
                    /\ spans[i].start < s + ShapeLen(f)
                    /\ s < spans[i].start + ShapeLen(f)

\* a finished scan whose result order is not the document order
C1_Witness ==
    /\ pc = "done"
    /\ \E i, j \in DOMAIN spans :
          /\ i < j
          /\ spans[i].start > spans[j].start
          /\ FamilyRank(spans[i].family) < FamilyRank(spans[j].family)

\* C2: every delimited-pair match uses one delimiter throughout: its five
\* delimiters are all ':' or all '-'.
C2_UniformDelimiter ==
    \A i \in DOMAIN spans :
        spans[i].family = "delimited" =>
            \A k \in {6, 9, 12, 15} : addresses[i][k] = addresses[i][3]

\* the text after removing '-', ':', '.' and ' '
NotSeparator(b) == b \notin {45, 58, 46, 32}
Stripped(s) == SelectSeq(s, NotSeparator)

\* number of characters of a UTF-8 text: its bytes that are not continuation bytes
CharCount(s) == Cardinality({k \in DOMAIN s : s[k] \notin 128..191})

\* C3: when the cleaned input has length 12 and one of its six 2-character
\* chunks holds a character that is no hex digit, MacAddress::new fails with
\* InvalidHex naming the input.
C3_NonHexIsInvalidHex ==
    (/\ pc = "parsed"
     /\ Len(Stripped(input)) = 12
     /\ \E k \in 1..12 : Stripped(input)[k] \notin HexChars)
       => parsed = Err("InvalidHex", input)

\* C4: when the cleaned input does not have exactly 12 characters,
\* MacAddress::new fails with InvalidLength naming the input.
C4_WrongLengthIsInvalidLength ==
    (pc = "parsed" /\ CharCount(Stripped(input)) # 12)
       => parsed = Err("InvalidLength", input)

\* C5: an address rendered bare, parsed, and formatted bare with the preserve
\* policy gives the rendering back, and the parse gives the octets back.
C5_RoundTrip ==
    rendered.ok =>
        /\ pc \in {"parsed", "formatted"} =>
              parsed.ok /\ parsed.bytes = rendered.bytes
        /\ (pc = "formatted" /\ format_fn = "to_bare" /\ force_case = "None") =>
              formatted = input

\* a round trip of a rendering that holds letters of both cases
C5_Witness ==
    /\ rendered.ok
    /\ pc = "formatted" /\ format_fn = "to_bare" /\ force_case = "None"
    /\ formatted = input
    /\ \E k \in DOMAIN input : input[k] \in HexLetterUpper
    /\ \E k \in DOMAIN input : input[k] \in HexLetterLower

\* the 12 digits of a formatted address
NotPunct(b) == b \notin {58, 45, 46}
Digits(out) == SelectSeq(out, NotPunct)

\* C6: formatting with force upper gives no lowercase hex letter, with force
\* lower no uppercase hex letter, and with preserve each of the 12 digits has
\* the letter case of the corresponding character of the source text.
C6_CaseInvariant ==
    pc = "formatted" =>
        /\ Len(Digits(formatted)) = 12
        /\ force_case = "Some(true)" =>
              \A k \in DOMAIN formatted : formatted[k] \notin HexLetterLower
        /\ force_case = "Some(false)" =>
              \A k \in DOMAIN formatted : formatted[k] \notin HexLetterUpper
        /\ force_case = "None" =>
              \A k \in 1..12 :
                 /\ (Digits(formatted)[k] \in 65..90) = (Stripped(input)[k] \in 65..90)
                 /\ (Digits(formatted)[k] \in 97..122) = (Stripped(input)[k] \in 97..122)

\* a dot-grouped rendering with preserved case of a source of mixed case
C6_Witness ==
    /\ pc = "formatted" /\ force_case = "None" /\ format_fn = "to_cisco"
    /\ \E k \in DOMAIN formatted : formatted[k] \in HexLetterUpper
    /\ \E k \in DOMAIN formatted : formatted[k] \in HexLetterLower

\* the text has one of the three layouts somewhere
HasCandidate(text) ==
    \E f \in Families : \E s \in 1..Len(text) : OccursAt(f, text, s)

NoAddressesFound == "Err(No MAC addresses found in input)"

RECURSIVE LinesOf(_, _, _)
LinesOf(strs, fn, fc) ==
    IF strs = <<>> THEN <<>>
    ELSE LET mac == MacAddress_new(Head(strs))
         IN  (IF mac.ok THEN <<call_format_fn(fn, mac, fc)>> ELSE <<>>)
                \o LinesOf(Tail(strs), fn, fc)

RECURSIVE DiagnosticsOf(_)
DiagnosticsOf(strs) ==
    IF strs = <<>> THEN <<>>
    ELSE LET mac == MacAddress_new(Head(strs))
         IN  (IF mac.ok THEN <<>> ELSE <<[mac_str |-> Head(strs), e |-> mac]>>)
                \o DiagnosticsOf(Tail(strs))

\* C8: process_input handles every match once, in scanner order: after n
\* matches the printed lines are the formatted parsable ones among the first
\* n, the diagnostics are the unparsable ones, one each, and it returns Ok
\* only after the last match.
C8_EveryMatchOnceInOrder ==
    pc \in {"run", "done"} =>
        LET n == mac_i - 1
        IN  /\ n \in 0..Len(addresses)
            /\ stdout = LinesOf(SubSeq(addresses, 1, n), format_fn, force_case)
            /\ stderr = DiagnosticsOf(SubSeq(addresses, 1, n))
            /\ Len(stdout) + Len(stderr) = n
            /\ pc = "done" => n = Len(addresses)

\* a finished run that printed two different lines
C8_Witness ==
    /\ pc = "done" /\ result = "Ok"
    /\ Len(stdout) = 2
    /\ stdout[1] # stdout[2]

\* the text consists of whitespace characters only (or is empty)
RECURSIVE WhitespaceOnly(_)
WhitespaceOnly(s) ==
    IF s = <<>> THEN TRUE
    ELSE IF Head(s) \in (9..13) \cup {32} THEN WhitespaceOnly(Tail(s))
    ELSE IF Len(s) >= 3 /\ SubSeq(s, 1, 3) = <<226, 128, 131>>
         THEN WhitespaceOnly(SubSeq(s, 4, Len(s)))
    ELSE FALSE

\* number of bytes of s other than spaces
NonSpaceBytes(s) == Cardinality({k \in DOMAIN s : s[k] # 32})

\* C9 as stated: MacAddress::new of the empty string and of every
\* whitespace-only string fails with InvalidLength.
C9_WhitespaceIsInvalidLength ==
    (pc = "parsed" /\ WhitespaceOnly(input))
       => parsed = Err("InvalidLength", input)

\* C9 as amended: MacAddress::new of the empty string and of every
\* whitespace-only string fails, and the failure is InvalidLength unless the
\* string holds exactly 12 bytes besides its spaces.
C9_WhitespaceFails ==
    (pc = "parsed" /\ WhitespaceOnly(input)) =>
        /\ ~parsed.ok
        /\ parsed.input = input
        /\ NonSpaceBytes(input) # 12 => parsed.kind = "InvalidLength"
        /\ parsed.kind \in {"InvalidLength", "InvalidHex", "InvalidCharacters"}

\* tabs and a space, refused for their length
C9_Witness ==
    /\ pc = "parsed"
    /\ WhitespaceOnly(input)
    /\ \E k \in DOMAIN input : input[k] = 9
    /\ \E k \in DOMAIN input : input[k] = 32
    /\ parsed = Err("InvalidLength", input)

\* d with sep after every w-th digit but the last
RECURSIVE Interleave(_, _, _)
Interleave(d, w, sep) ==
    IF Len(d) <= w THEN d
    ELSE SubSeq(d, 1, w) \o <<sep>> \o Interleave(SubSeq(d, w + 1, Len(d)), w, sep)

\* C10: for every case policy the four formatters give the same 12 digits:
\* to_standard is to_bare with ':' after each of the first five pairs,
\* to_windows the same with '-', to_cisco has '.' after the 4th and the 8th
\* digit, and each without its separators is to_bare.
C10_SameDigits ==
    (pc \in {"parsed", "formatted"} /\ parsed.ok) =>
        /\ \A fc \in ForceCases :
              LET bare == to_bare(parsed, fc)
              IN  /\ Len(bare) = 12
                  /\ \A k \in 1..12 : bare[k] \in HexChars
                  /\ to_standard(parsed, fc) = Interleave(bare, 2, 58)
                  /\ to_windows(parsed, fc) = Interleave(bare, 2, 45)
                  /\ to_cisco(parsed, fc) = Interleave(bare, 4, 46)
                  /\ Digits(to_standard(parsed, fc)) = bare
                  /\ Digits(to_windows(parsed, fc)) = bare
                  /\ Digits(to_cisco(parsed, fc)) = bare
        /\ pc = "formatted" => Digits(formatted) = to_bare(parsed, force_case)

\* a dot-grouped rendering and the bare one of the same address
C10_Witness ==
    /\ pc = "formatted" /\ parsed.ok
    /\ format_fn = "to_cisco"
    /\ Len(formatted) = 14
    /\ formatted[5] = 46 /\ formatted[10] = 46
    /\ Digits(formatted) = to_bare(parsed, force_case)

\* C11: every string find_mac_addresses returns, of any family and for any
\* text, is parsed by MacAddress::new into 6 octets and 12 case flags; so
\* process_input never prints a diagnostic and, when it returns Ok, has
\* printed as many lines as there are matches.
C11_ScannedMatchesParse ==
    /\ \A i \in DOMAIN addresses :
          LET mac == MacAddress_new(addresses[i])
          IN  /\ mac.ok
              /\ Len(mac.bytes) = 6
              /\ \A k \in 1..6 : mac.bytes[k] \in 0..255
              /\ Len(mac.original_case) = 12
    /\ \A i \in 1..Len(patterns) :
          LET matches == find_iter(patterns[i], input, 1)
          IN  \A k \in DOMAIN matches :
                 LET mac == MacAddress_new(matches[k].as_str)
                 IN  mac.ok /\ Len(mac.bytes) = 6 /\ Len(mac.original_case) = 12
    /\ stderr = <<>>
    /\ pc \in {"run", "done"} => Len(stdout) = mac_i - 1
    /\ (pc = "done" /\ result = "Ok") => Len(stdout) = Len(addresses)

\* a finished run over a dash-separated match and one of another family,
\* one line each and no diagnostic
C11_Witness ==
    /\ pc = "done" /\ result = "Ok"
    /\ stderr = <<>>
    /\ Len(addresses) >= 2
    /\ Len(stdout) = Len(addresses)
    /\ \E i \in DOMAIN addresses :
          spans[i].family = "delimited" /\ addresses[i][3] = 45
    /\ \E i \in DOMAIN addresses : spans[i].family # "delimited"

====
